---- MODULE Spec2Model ----
(***************************************************************************)
(* Model of open_loop_control/src/translation_control.py: the              *)
(* TranslationController (flight-mode callback, maneuver executor,         *)
(* setpoint streaming thread), the maneuver generators and the static      *)
(* frame transforms.                                                       *)
(*                                                                         *)
(* Units.  Velocities are integers in units of 0.1 m/s, so that            *)
(* Constants.MAX_SPEED = .5 m/s is 5.  Time is counted in sampling periods *)
(* (1/Constants.RATE s): a maneuver duration of d is d periods.            *)
(*                                                                         *)
(* Threads.  rospy delivers the messages of one topic connection on one    *)
(* thread, one callback at a time: state_cb runs to completion (maneuver   *)
(* execution included) before the next /mavros/state message is handled;   *)
(* messages that arrive meanwhile wait in `inbox`.  pose_sub_cb runs on    *)
(* the thread of its own topic.  Each start_streaming_offboard_points()    *)
(* creates one more streaming thread.  The main thread sits in             *)
(* rospy.spin() and calls stop_streaming_offboard_points() after it.       *)
(* Steps are one source statement each; lines 230-240 of run_streaming,    *)
(* which work on the thread's own copy, are one step.                      *)
(***************************************************************************)
EXTENDS Integers, Sequences, FiniteSets, TLC

\* ---------------------------------------------------------------- bounds
\* number of streaming threads that can be created in one run
MaxThreads == 2
\* number of /mavros/state messages that can wait for state_cb
MaxInbox == 1
\* longest maneuver duration, in sampling periods
MaxDur == 2

\* ------------------------------------------------------------- constants
\* Constants.MAX_SPEED = .5 [m/s], in units of 0.1 m/s
MAX_SPEED == 5

Threads == 1..MaxThreads
Zero == <<0, 0, 0>>

\* mavros_msgs/State.mode values: the three the controller reacts to, and
\* the empty mode of State(), which stands for every other mode
Modes == {"", "MANUAL", "POSCTL", "OFFBOARD"}

\* -------------------------------------------------------- linear algebra
\* np.dot(R, v) on the 3x3 rotation block
MatVec(R, v) ==
  << R[1][1]*v[1] + R[1][2]*v[2] + R[1][3]*v[3],
     R[2][1]*v[1] + R[2][2]*v[2] + R[2][3]*v[3],
     R[3][1]*v[1] + R[3][2]*v[2] + R[3][3]*v[3] >>

\* .T that returns the matrix as it is
Transpose_NotTransposed(R) == R

\* ndarray.T
Transpose(R) ==
  << <<R[1][1], R[2][1], R[3][1]>>,
     <<R[1][2], R[2][2], R[3][2]>>,
     <<R[1][3], R[2][3], R[3][3]>> >>

\* tft.concatenate_matrices(A, B) = A . B
MatMul(A, B) ==
  << <<A[1][1]*B[1][1] + A[1][2]*B[2][1] + A[1][3]*B[3][1],
       A[1][1]*B[1][2] + A[1][2]*B[2][2] + A[1][3]*B[3][2],
       A[1][1]*B[1][3] + A[1][2]*B[2][3] + A[1][3]*B[3][3]>>,
     <<A[2][1]*B[1][1] + A[2][2]*B[2][1] + A[2][3]*B[3][1],
       A[2][1]*B[1][2] + A[2][2]*B[2][2] + A[2][3]*B[3][2],
       A[2][1]*B[1][3] + A[2][2]*B[2][3] + A[2][3]*B[3][3]>>,
     <<A[3][1]*B[1][1] + A[3][2]*B[2][1] + A[3][3]*B[3][1],
       A[3][1]*B[1][2] + A[3][2]*B[2][2] + A[3][3]*B[3][2],
       A[3][1]*B[1][3] + A[3][2]*B[2][3] + A[3][3]*B[3][3]>> >>

\* tft.identity_matrix()
Identity == << <<1, 0, 0>>, <<0, 1, 0>>, <<0, 0, 1>> >>

\* tft.rotation_matrix(np.pi, (1,0,0)): half turn about x
RotPiX == << <<1, 0, 0>>, <<0, -1, 0>>, <<0, 0, -1>> >>

\* square of np.linalg.norm([x, y, z])
NormSq(v) == v[1]*v[1] + v[2]*v[2] + v[3]*v[3]

\* ------------------------------------------------------ StaticTransforms
R_lenu2lned == RotPiX
R_bu2bd == RotPiX
R_dc2bd == Identity
R_fc2bd == << <<0, 0, 1>>, <<1, 0, 0>>, <<0, 1, 0>> >>
R_lned2lenu == Transpose(R_lenu2lned)
R_bd2bu == Transpose(R_bu2bd)
R_bd2dc == Transpose(R_dc2bd)
R_bd2fc == Transpose(R_fc2bd)
R_dc2fc == MatMul(R_bd2fc, R_dc2bd)
R_fc2dc == Transpose(R_dc2fc)
R_dc2bu == MatMul(R_bd2bu, R_dc2bd)
R_bu2dc == Transpose(R_dc2bu)
R_fc2bu == MatMul(R_bd2bu, R_fc2bd)
R_bu2fc == Transpose(R_fc2bu)

\* the class attributes named R_<fin>2<fout>, keyed by <<fin, fout>>
StaticAttrs ==
  [p \in { <<"lenu", "lned">>, <<"bu", "bd">>, <<"dc", "bd">>, <<"fc", "bd">>,
           <<"lned", "lenu">>, <<"bd", "bu">>, <<"bd", "dc">>, <<"bd", "fc">>,
           <<"dc", "fc">>, <<"fc", "dc">>, <<"dc", "bu">>, <<"bu", "dc">>,
           <<"fc", "bu">>, <<"bu", "fc">> } |->
     CASE p = <<"lenu", "lned">> -> R_lenu2lned
       [] p = <<"bu", "bd">> -> R_bu2bd
       [] p = <<"dc", "bd">> -> R_dc2bd
       [] p = <<"fc", "bd">> -> R_fc2bd
       [] p = <<"lned", "lenu">> -> R_lned2lenu
       [] p = <<"bd", "bu">> -> R_bd2bu
       [] p = <<"bd", "dc">> -> R_bd2dc
       [] p = <<"bd", "fc">> -> R_bd2fc
       [] p = <<"dc", "fc">> -> R_dc2fc
       [] p = <<"fc", "dc">> -> R_fc2dc
       [] p = <<"dc", "bu">> -> R_dc2bu
       [] p = <<"bu", "dc">> -> R_bu2dc
       [] p = <<"fc", "bu">> -> R_fc2bu
       [] p = <<"bu", "fc">> -> R_bu2fc]

\* A call's outcome: the returned vector, or the exception it raises.
Ret(v) == [exc |-> "none", v |-> v]
Raise(e) == [exc |-> e, v |-> Zero]
\* an exception raised with a message
RaiseMsg(e, msg) == [exc |-> e, v |-> Zero, msg |-> msg]

\* lines 99-100: the message, as the pieces format() puts together
err(fin, fout) ==
  << "No static transform exists from ", fin, " to ", fout, ".",
     " Are you sure these frames are not moving relative to each other?" >>

\* coord_transform that takes a missing rotation for the identity
coord_transform_MissingAsIdentity(v__fin, fin, fout) ==
  IF <<fin, fout>> \notin DOMAIN StaticAttrs THEN Ret(MatVec(Identity, v__fin))
  ELSE Ret(MatVec(StaticAttrs[<<fin, fout>>], v__fin))

\* StaticTransforms.coord_transform(v__fin, fin, fout)
coord_transform(v__fin, fin, fout) ==
  IF fin = fout THEN Ret(MatVec(Identity, v__fin))
  ELSE IF <<fin, fout>> \notin DOMAIN StaticAttrs
       THEN RaiseMsg("AttributeError", err(fin, fout))
  ELSE Ret(MatVec(StaticAttrs[<<fin, fout>>], v__fin))

\* tft.quaternion_matrix(q) for a unit quaternion q = (x, y, z, w)
quaternion_matrix(q) ==
  << <<1 - 2*(q[2]*q[2] + q[3]*q[3]), 2*(q[1]*q[2] - q[3]*q[4]), 2*(q[1]*q[3] + q[2]*q[4])>>,
     <<2*(q[1]*q[2] + q[3]*q[4]), 1 - 2*(q[1]*q[1] + q[3]*q[3]), 2*(q[2]*q[3] - q[1]*q[4])>>,
     <<2*(q[1]*q[3] - q[2]*q[4]), 2*(q[2]*q[3] + q[1]*q[4]), 1 - 2*(q[1]*q[1] + q[2]*q[2])>> >>

\* q_bu_lenu before any pose message (None), as a value
NoPose == <<0, 0, 0, 0>>

\* the orientation the pose topic delivers: yawed by a half turn
Quaternions == { <<0, 0, 1, 0>> }

\* get_lenu_velocity(q_bu_lenu, v__fin, fin): quaternion_matrix(None)
\* raises TypeError, a frame without static transform to bu AttributeError
get_lenu_velocity(q, v__fin, fin) ==
  IF fin = "lenu" THEN Ret(v__fin)
  ELSE IF fin = "lned" THEN coord_transform(v__fin, "lned", "lenu")
  ELSE IF q = NoPose THEN Raise("TypeError")
  ELSE LET v__bu == coord_transform(v__fin, fin, "bu")
       IN  IF v__bu.exc # "none" THEN v__bu
           ELSE Ret(MatVec(quaternion_matrix(q), v__bu.v))

\* -------------------------------------------------------------- maneuvers
\* s_man.__init__: the attributes vel_set, ref, dur
s_man(vel_set, dur, ref) ==
  [kind |-> "s_man", vel_set |-> vel_set, ref |-> ref, dur |-> dur]

\* par_man.__init__: the attributes f, ref, domain (and no dur)
par_man(vel_func, domain, ref) ==
  [kind |-> "par_man", f |-> vel_func, ref |-> ref, domain |-> domain]

\* a velocity function of elapsed time, as __main__'s moustache(t) is
moustache == [t \in 0..(MaxDur + 1) |-> <<1, t, 0>>]

\* the MANEUVERS lists the controller is constructed with
ManeuverLists ==
  { << s_man(<<6, 0, 0>>, 1, "lned"), s_man(<<3, 4, 0>>, MaxDur, "lenu") >>,
    << par_man(moustache, MaxDur, "fc") >>,
    << s_man(<<2, 0, 0>>, 1, "fc"), s_man(<<0, 2, 0>>, 1, "m") >> }

\* One next() of man.__iter__() at `elapsed` periods since the first pull:
\* the while condition reads self.dur, which a par_man does not have.
GenNext(man, elapsed) ==
  IF "dur" \notin DOMAIN man THEN [exc |-> "AttributeError", stop |-> FALSE, v |-> Zero]
  ELSE IF ~(elapsed < man.dur) THEN [exc |-> "none", stop |-> TRUE, v |-> Zero]
  ELSE IF man.kind = "s_man" THEN [exc |-> "none", stop |-> FALSE, v |-> man.vel_set]
  ELSE [exc |-> "none", stop |-> FALSE, v |-> man.f[elapsed]]


\* ------------------------------------------------------------------ state
VARIABLES
  maneuvers,                        \* self.maneuvers
  current_state,                    \* self.current_state.mode
  prev_state,                       \* self.prev_state.mode
  q_bu_lenu,                        \* self.q_bu_lenu
  vel_setpoint_bu_lenu__lenu,       \* self.vel_setpoint_bu_lenu__lenu (.linear)
  offboard_point_streaming,         \* self.offboard_point_streaming
  offboard_point_streaming_thread,  \* the attribute; 0 while it is not set
  thr,                              \* the run_streaming threads: where each is
  cb,                               \* the /mavros/state callback thread
  main,                             \* the main thread
  inbox,                            \* /mavros/state messages not yet handled
  shutdown,                         \* rospy.is_shutdown()
  published,                        \* what vel_setpoint_pub last carried
  hist,                             \* history of the run, for the properties
  call                              \* a call of coord_transform on its own

\* the controller object and its threads
controller == << maneuvers, current_state, prev_state, q_bu_lenu,
                 vel_setpoint_bu_lenu__lenu, offboard_point_streaming,
                 offboard_point_streaming_thread, thr, cb, main, inbox,
                 shutdown, published, hist >>

vars == << controller, call >>

\* state_cb not running
Idle == [pc |-> "idle", k |-> 0, n |-> 0, vel |-> Zero, joinT |-> 0, exc |-> "none"]

\* nothing published yet
Nothing == <<>>

\* threading.Thread: a thread that has ended, by return or by exception
Dead == {"exited", "crashed"}

\* Thread.is_alive()
Alive(t) == thr[t] \notin (Dead \cup {"unborn"})

\* the control points of execute_maneuver and of the loop over the list
ExecPcs == {"for", "pull", "l198", "l200", "l201", "l202", "l204", "l207"}

NoLate == [armed |-> FALSE, w |-> 0]

HistInit == [stopReturned |-> FALSE, late |-> NoLate, written |-> <<>>,
             aborted |-> 0, modes |-> <<"", "">>]

\* no call of coord_transform on its own
NoCall == [pc |-> "none", v |-> Zero, fin |-> "", fout |-> "",
           res |-> Ret(Zero), back |-> Ret(Zero)]

Init ==
  /\ call = NoCall
  /\ maneuvers \in ManeuverLists
  /\ current_state = ""
  /\ prev_state = ""
  /\ q_bu_lenu = NoPose
  /\ vel_setpoint_bu_lenu__lenu = Zero
  /\ offboard_point_streaming = FALSE
  /\ offboard_point_streaming_thread = 0
  /\ thr = [t \in Threads |-> "unborn"]
  /\ cb = Idle
  /\ main = [pc |-> "spin", joinT |-> 0]
  /\ inbox = <<>>
  /\ shutdown = FALSE
  /\ published = Nothing
  /\ hist = HistInit

\* ---------------------------------------------------------- environment
\* a /mavros/state message arrives while state_cb may still be busy
Arrive(m) ==
  /\ ~shutdown
  /\ Len(inbox) < MaxInbox
  /\ inbox' = Append(inbox, m)
  /\ hist' = IF /\ m = "MANUAL" /\ inbox = <<>> /\ ~hist.late.armed
                /\ cb.pc \in ExecPcs /\ current_state = "OFFBOARD"
             THEN [hist EXCEPT !.late = [NoLate EXCEPT !.armed = TRUE]]
             ELSE hist
  /\ UNCHANGED << call, maneuvers, current_state, prev_state, q_bu_lenu,
                  vel_setpoint_bu_lenu__lenu, offboard_point_streaming,
                  offboard_point_streaming_thread, thr, cb, main, shutdown,
                  published >>

\* pose_sub_cb(msg)
pose_sub_cb(q) ==
  /\ ~shutdown
  /\ q_bu_lenu' = q
  /\ UNCHANGED << call, maneuvers, current_state, prev_state,
                  vel_setpoint_bu_lenu__lenu, offboard_point_streaming,
                  offboard_point_streaming_thread, thr, cb, main, inbox,
                  shutdown, published, hist >>

\* the node is shut down (rospy.is_shutdown() turns true and stays true)
Shutdown ==
  /\ ~shutdown
  /\ shutdown' = TRUE
  /\ UNCHANGED << call, maneuvers, current_state, prev_state, q_bu_lenu,
                  vel_setpoint_bu_lenu__lenu, offboard_point_streaming,
                  offboard_point_streaming_thread, thr, cb, main, inbox,
                  published, hist >>

\* ------------------------------------------------------ streaming thread
\* line 234 with the limit taken one unit too high
OverLimit_LimitTooHigh(v) == NormSq(v) > (MAX_SPEED + 1) * (MAX_SPEED + 1)

\* line 234: speed > Constants.MAX_SPEED
OverLimit(v) == NormSq(v) > MAX_SPEED * MAX_SPEED

\* line 224
ThrL224(t) ==
  /\ thr[t] = "l224"
  /\ offboard_point_streaming' = TRUE
  /\ thr' = [thr EXCEPT ![t] = "l225"]
  /\ UNCHANGED << call, maneuvers, current_state, prev_state, q_bu_lenu,
                  vel_setpoint_bu_lenu__lenu, offboard_point_streaming_thread,
                  cb, main, inbox, shutdown, published, hist >>

\* line 225: the while condition
ThrL225(t) ==
  /\ thr[t] = "l225"
  /\ thr' = [thr EXCEPT ![t] =
       IF ~shutdown /\ offboard_point_streaming THEN "l230" ELSE "exited"]
  /\ UNCHANGED << call, maneuvers, current_state, prev_state, q_bu_lenu,
                  vel_setpoint_bu_lenu__lenu, offboard_point_streaming,
                  offboard_point_streaming_thread, cb, main, inbox, shutdown,
                  published, hist >>

\* lines 227-242: the setpoint (it is never None) is copied and its speed
\* taken.  Over the limit, line 235 evaluates the name MAX_SPEED, which is
\* not defined in the module (only Constants.MAX_SPEED is): NameError ends
\* the thread, and the flag stays set.  Otherwise the copy is published and
\* the thread sleeps one period.
ThrL230(t) ==
  /\ thr[t] = "l230"
  /\ LET velsp_limited == vel_setpoint_bu_lenu__lenu
     IN  IF OverLimit(velsp_limited)
         THEN /\ thr' = [thr EXCEPT ![t] = "crashed"]
              /\ UNCHANGED published
         ELSE /\ thr' = [thr EXCEPT ![t] = "l225"]
              /\ published' = velsp_limited
  /\ UNCHANGED << call, maneuvers, current_state, prev_state, q_bu_lenu,
                  vel_setpoint_bu_lenu__lenu, offboard_point_streaming,
                  offboard_point_streaming_thread, cb, main, inbox, shutdown,
                  hist >>

\* ------------------------------------------------- start / stop streaming
\* lines 244-245: the next thread is created, bound to the attribute and
\* started at line 224
StartThread(t) ==
  /\ thr[t] = "unborn"
  /\ \A u \in Threads : u < t => thr[u] # "unborn"
  /\ thr' = [thr EXCEPT ![t] = "l224"]
  /\ offboard_point_streaming_thread' = t

\* ------------------------------------------------------------- state_cb
\* line 276-277
StopDue(mode, streaming) == mode = "MANUAL" /\ streaming

\* lines 281-282 with the flag test inverted
StartDue_FlagInverted(mode, streaming) == mode = "POSCTL" /\ streaming

\* lines 281-282 with the streamer started in every mode but MANUAL
StartDue_AnyButManual(mode, streaming) == mode # "MANUAL" /\ ~streaming

\* lines 281-282
StartDue(mode, streaming) == mode = "POSCTL" /\ ~streaming

\* lines 281, 285
HoverDue(mode, prev) == mode = "POSCTL" /\ ~(prev = "POSCTL")

\* lines 289-290 without the test of the previous mode
ExecuteDue_PrevIgnored(mode, prev) == mode = "OFFBOARD"

\* lines 289-290
ExecuteDue(mode, prev) == mode = "OFFBOARD" /\ ~(prev = "OFFBOARD")

\* state_cb returns
Return ==
  /\ cb' = Idle
  /\ hist' = [hist EXCEPT !.late = NoLate, !.written = <<>>, !.aborted = 0]

\* an exception is raised in state_cb and nothing there catches it
Escape(e) ==
  /\ cb' = [Idle EXCEPT !.pc = "raised", !.exc = e, !.k = cb.k]
  /\ UNCHANGED hist

\* lines 273-274 in the other order: the message is assigned first
SavedPrevState_AssignedFirst(current, prev, msg) == msg

\* line 273: prev_state becomes a copy of current_state as it is before the
\* message is assigned
SavedPrevState(current, prev, msg) == current

\* the next message is taken; lines 273-274
StateCbBegin ==
  /\ cb.pc = "idle"
  /\ ~shutdown
  /\ inbox # <<>>
  /\ prev_state' = SavedPrevState(current_state, prev_state, Head(inbox))
  /\ current_state' = Head(inbox)
  /\ inbox' = Tail(inbox)
  /\ cb' = [cb EXCEPT !.pc = "l276"]
  /\ hist' = [hist EXCEPT !.modes = <<hist.modes[2], Head(inbox)>>]
  /\ UNCHANGED << call, maneuvers, q_bu_lenu, vel_setpoint_bu_lenu__lenu,
                  offboard_point_streaming, offboard_point_streaming_thread,
                  thr, main, shutdown, published >>

\* lines 276-277
CbL276 ==
  /\ cb.pc = "l276"
  /\ cb' = [cb EXCEPT !.pc =
       IF StopDue(current_state, offboard_point_streaming) THEN "l250" ELSE "l281"]
  /\ UNCHANGED << call, maneuvers, current_state, prev_state, q_bu_lenu,
                  vel_setpoint_bu_lenu__lenu, offboard_point_streaming,
                  offboard_point_streaming_thread, thr, main, inbox, shutdown,
                  published, hist >>

\* line 250, called from line 279
CbL250 ==
  /\ cb.pc = "l250"
  /\ offboard_point_streaming' = FALSE
  /\ cb' = [cb EXCEPT !.pc = "l252"]
  /\ UNCHANGED << call, maneuvers, current_state, prev_state, q_bu_lenu,
                  vel_setpoint_bu_lenu__lenu, offboard_point_streaming_thread,
                  thr, main, inbox, shutdown, published, hist >>

\* lines 251-254: the attribute is looked up (AttributeError is swallowed
\* and stop returns) and join() is called on that thread
CbL252 ==
  /\ cb.pc = "l252"
  /\ IF offboard_point_streaming_thread = 0
     THEN /\ cb' = [cb EXCEPT !.pc = "l281"]
          /\ hist' = [hist EXCEPT !.stopReturned = TRUE]
     ELSE /\ cb' = [cb EXCEPT !.pc = "join", !.joinT = offboard_point_streaming_thread]
          /\ UNCHANGED hist
  /\ UNCHANGED << call, maneuvers, current_state, prev_state, q_bu_lenu,
                  vel_setpoint_bu_lenu__lenu, offboard_point_streaming,
                  offboard_point_streaming_thread, thr, main, inbox, shutdown,
                  published >>

\* line 252: join() returns once that thread has ended
CbJoin ==
  /\ cb.pc = "join"
  /\ thr[cb.joinT] \in Dead
  /\ cb' = [cb EXCEPT !.pc = "l281", !.joinT = 0]
  /\ hist' = [hist EXCEPT !.stopReturned = TRUE]
  /\ UNCHANGED << call, maneuvers, current_state, prev_state, q_bu_lenu,
                  vel_setpoint_bu_lenu__lenu, offboard_point_streaming,
                  offboard_point_streaming_thread, thr, main, inbox, shutdown,
                  published >>

\* lines 281-284
CbL281 ==
  /\ cb.pc = "l281"
  /\ IF StartDue(current_state, offboard_point_streaming)
     THEN /\ \E t \in Threads : StartThread(t)
          /\ hist' = [hist EXCEPT !.stopReturned = FALSE]
     ELSE UNCHANGED << thr, offboard_point_streaming_thread, hist >>
  /\ cb' = [cb EXCEPT !.pc = "l285"]
  /\ UNCHANGED << call, maneuvers, current_state, prev_state, q_bu_lenu,
                  vel_setpoint_bu_lenu__lenu, offboard_point_streaming, main,
                  inbox, shutdown, published >>

\* lines 285-287, with hover (line 212)
CbL285 ==
  /\ cb.pc = "l285"
  /\ IF HoverDue(current_state, prev_state)
     THEN vel_setpoint_bu_lenu__lenu' = Zero
     ELSE UNCHANGED vel_setpoint_bu_lenu__lenu
  /\ cb' = [cb EXCEPT !.pc = "l289"]
  /\ UNCHANGED << call, maneuvers, current_state, prev_state, q_bu_lenu,
                  offboard_point_streaming, offboard_point_streaming_thread,
                  thr, main, inbox, shutdown, published, hist >>

\* lines 289-292
CbL289 ==
  /\ cb.pc = "l289"
  /\ IF ExecuteDue(current_state, prev_state)
     THEN /\ cb' = [cb EXCEPT !.pc = "for", !.k = 0]
          /\ UNCHANGED hist
     ELSE Return
  /\ UNCHANGED << call, maneuvers, current_state, prev_state, q_bu_lenu,
                  vel_setpoint_bu_lenu__lenu, offboard_point_streaming,
                  offboard_point_streaming_thread, thr, main, inbox, shutdown,
                  published >>

\* line 293: the next maneuver of the list, or the end of the list
CbFor ==
  /\ cb.pc = "for"
  /\ IF cb.k < Len(maneuvers)
     THEN /\ cb' = [cb EXCEPT !.pc = "pull", !.k = @ + 1, !.n = 0]
          /\ UNCHANGED hist
     ELSE Return
  /\ UNCHANGED << call, maneuvers, current_state, prev_state, q_bu_lenu,
                  vel_setpoint_bu_lenu__lenu, offboard_point_streaming,
                  offboard_point_streaming_thread, thr, main, inbox, shutdown,
                  published >>

\* line 197: next() on the maneuver's generator, after cb.n sleeps
CbPull ==
  /\ cb.pc = "pull"
  /\ LET g == GenNext(maneuvers[cb.k], cb.n)
     IN  IF g.exc # "none" THEN Escape(g.exc)
         ELSE /\ cb' = IF g.stop THEN [cb EXCEPT !.pc = "l207"]
                       ELSE [cb EXCEPT !.pc = "l198", !.vel = g.v]
              /\ UNCHANGED hist
  /\ UNCHANGED << call, maneuvers, current_state, prev_state, q_bu_lenu,
                  vel_setpoint_bu_lenu__lenu, offboard_point_streaming,
                  offboard_point_streaming_thread, thr, main, inbox, shutdown,
                  published >>

\* lines 198-199: a new Twist, then the sample is transformed
CbL198 ==
  /\ cb.pc = "l198"
  /\ vel_setpoint_bu_lenu__lenu' = Zero
  /\ LET r == get_lenu_velocity(q_bu_lenu, cb.vel, maneuvers[cb.k].ref)
     IN  IF r.exc # "none" THEN Escape(r.exc)
         ELSE /\ cb' = [cb EXCEPT !.pc = "l200", !.vel = r.v]
              /\ UNCHANGED hist
  /\ UNCHANGED << call, maneuvers, current_state, prev_state, q_bu_lenu,
                  offboard_point_streaming, offboard_point_streaming_thread,
                  thr, main, inbox, shutdown, published >>

\* line 200
CbL200 ==
  /\ cb.pc = "l200"
  /\ vel_setpoint_bu_lenu__lenu' = [vel_setpoint_bu_lenu__lenu EXCEPT ![1] = cb.vel[1]]
  /\ cb' = [cb EXCEPT !.pc = "l201"]
  /\ UNCHANGED << call, maneuvers, current_state, prev_state, q_bu_lenu,
                  offboard_point_streaming, offboard_point_streaming_thread,
                  thr, main, inbox, shutdown, published, hist >>

\* line 201
CbL201 ==
  /\ cb.pc = "l201"
  /\ vel_setpoint_bu_lenu__lenu' = [vel_setpoint_bu_lenu__lenu EXCEPT ![2] = cb.vel[2]]
  /\ cb' = [cb EXCEPT !.pc = "l202"]
  /\ UNCHANGED << call, maneuvers, current_state, prev_state, q_bu_lenu,
                  offboard_point_streaming, offboard_point_streaming_thread,
                  thr, main, inbox, shutdown, published, hist >>

\* line 202: the sample of maneuver cb.k is now written
CbL202 ==
  /\ cb.pc = "l202"
  /\ vel_setpoint_bu_lenu__lenu' = [vel_setpoint_bu_lenu__lenu EXCEPT ![3] = cb.vel[3]]
  /\ cb' = [cb EXCEPT !.pc = "l204", !.vel = Zero]
  /\ hist' = [hist EXCEPT !.written = Append(@, cb.k),
                          !.late.w = IF hist.late.armed /\ @ < 2 THEN @ + 1 ELSE @]
  /\ UNCHANGED << call, maneuvers, current_state, prev_state, q_bu_lenu,
                  offboard_point_streaming, offboard_point_streaming_thread,
                  thr, main, inbox, shutdown, published >>

\* line 204: break, or back to line 197 (the generator sleeps one period)
CbL204 ==
  /\ cb.pc = "l204"
  /\ IF shutdown \/ current_state # "OFFBOARD"
     THEN /\ cb' = [cb EXCEPT !.pc = "l207"]
          /\ hist' = [hist EXCEPT !.aborted = IF @ = 0 THEN cb.k ELSE @]
     ELSE /\ cb' = [cb EXCEPT !.pc = "pull", !.n = @ + 1]
          /\ UNCHANGED hist
  /\ UNCHANGED << call, maneuvers, current_state, prev_state, q_bu_lenu,
                  vel_setpoint_bu_lenu__lenu, offboard_point_streaming,
                  offboard_point_streaming_thread, thr, main, inbox, shutdown,
                  published >>

\* line 207
CbL207 ==
  /\ cb.pc = "l207"
  /\ vel_setpoint_bu_lenu__lenu' = Zero
  /\ cb' = [cb EXCEPT !.pc = "for", !.n = 0]
  /\ UNCHANGED << call, maneuvers, current_state, prev_state, q_bu_lenu,
                  offboard_point_streaming, offboard_point_streaming_thread,
                  thr, main, inbox, shutdown, published, hist >>

\* the exception leaves state_cb; rospy logs it ("bad callback") and the
\* callback thread goes on to the next message
CbRaised ==
  /\ cb.pc = "raised"
  /\ Return
  /\ UNCHANGED << call, maneuvers, current_state, prev_state, q_bu_lenu,
                  vel_setpoint_bu_lenu__lenu, offboard_point_streaming,
                  offboard_point_streaming_thread, thr, main, inbox, shutdown,
                  published >>

\* ------------------------------------------------------------ main thread
\* line 393: rospy.spin() returns at shutdown; line 250, called from line 395
MainL250 ==
  /\ main.pc = "spin"
  /\ shutdown
  /\ offboard_point_streaming' = FALSE
  /\ main' = [main EXCEPT !.pc = "l252"]
  /\ UNCHANGED << call, maneuvers, current_state, prev_state, q_bu_lenu,
                  vel_setpoint_bu_lenu__lenu, offboard_point_streaming_thread,
                  thr, cb, inbox, shutdown, published, hist >>

\* lines 251-254, called from line 395
MainL252 ==
  /\ main.pc = "l252"
  /\ IF offboard_point_streaming_thread = 0
     THEN /\ main' = [main EXCEPT !.pc = "done"]
          /\ hist' = [hist EXCEPT !.stopReturned = TRUE]
     ELSE /\ main' = [pc |-> "join", joinT |-> offboard_point_streaming_thread]
          /\ UNCHANGED hist
  /\ UNCHANGED << call, maneuvers, current_state, prev_state, q_bu_lenu,
                  vel_setpoint_bu_lenu__lenu, offboard_point_streaming,
                  offboard_point_streaming_thread, thr, cb, inbox, shutdown,
                  published >>

\* line 252: join() returns once that thread has ended
MainJoin ==
  /\ main.pc = "join"
  /\ thr[main.joinT] \in Dead
  /\ main' = [pc |-> "done", joinT |-> 0]
  /\ hist' = [hist EXCEPT !.stopReturned = TRUE]
  /\ UNCHANGED << call, maneuvers, current_state, prev_state, q_bu_lenu,
                  vel_setpoint_bu_lenu__lenu, offboard_point_streaming,
                  offboard_point_streaming_thread, thr, cb, inbox, shutdown,
                  published >>

\* ------------------------------------------------------------------ system
Next ==
  \/ \E m \in Modes : Arrive(m)
  \/ \E q \in Quaternions : pose_sub_cb(q)
  \/ Shutdown
  \/ \E t \in Threads : ThrL224(t)
  \/ \E t \in Threads : ThrL225(t)
  \/ \E t \in Threads : ThrL230(t)
  \/ StateCbBegin
  \/ CbL276
  \/ CbL250
  \/ CbL252
  \/ CbJoin
  \/ CbL281
  \/ CbL285
  \/ CbL289
  \/ CbFor
  \/ CbPull
  \/ CbL198
  \/ CbL200
  \/ CbL201
  \/ CbL202
  \/ CbL204
  \/ CbL207
  \/ CbRaised
  \/ MainL250
  \/ MainL252
  \/ MainJoin

Spec == Init /\ [][Next]_vars

\* ------------------------------------------- coord_transform on its own
\* largest absolute value of a component of the vectors transformed
MaxCoord == 1

\* the frames coord_transform is documented for (lines 80-81)
Frames == {"bd", "bu", "fc", "dc", "lned", "lenu"}

Vectors == { <<x, y, z>> : x \in -MaxCoord..MaxCoord, y \in -MaxCoord..MaxCoord,
                           z \in -MaxCoord..MaxCoord }

\* a constructed controller, and a call coord_transform(v, fin, fout) to make
TransformInit ==
  /\ call \in [pc : {"call"}, v : Vectors, fin : Frames, fout : Frames,
               res : {Ret(Zero)}, back : {Ret(Zero)}]
  /\ maneuvers \in ManeuverLists
  /\ current_state = ""
  /\ prev_state = ""
  /\ q_bu_lenu = NoPose
  /\ vel_setpoint_bu_lenu__lenu = Zero
  /\ offboard_point_streaming = FALSE
  /\ offboard_point_streaming_thread = 0
  /\ thr = [t \in Threads |-> "unborn"]
  /\ cb = Idle
  /\ main = [pc |-> "spin", joinT |-> 0]
  /\ inbox = <<>>
  /\ shutdown = FALSE
  /\ published = Nothing
  /\ hist = HistInit

\* static_transforms.coord_transform(v, fin, fout) is called and returns or
\* raises; the method assigns no attribute
CoordTransformCall ==
  /\ call.pc = "call"
  /\ call' = [call EXCEPT !.pc = "returned",
                          !.res = coord_transform(call.v, call.fin, call.fout)]
  /\ UNCHANGED controller

\* the vector returned is transformed back: coord_transform(v', fout, fin)
CoordTransformBack ==
  /\ call.pc = "returned"
  /\ call.res.exc = "none"
  /\ call' = [call EXCEPT !.pc = "back",
                          !.back = coord_transform(call.res.v, call.fout, call.fin)]
  /\ UNCHANGED controller

TransformNext ==
  \/ CoordTransformCall
  \/ CoordTransformBack

TransformSpec == TransformInit /\ [][TransformNext]_vars

\* ------------------------------------------------------------ properties
\* a step in which streaming thread t publishes
Publishes(t) == thr[t] = "l230" /\ thr'[t] = "l225"

\* b is a with the same direction: parallel, and not reversed
SameDirection(a, b) ==
  /\ a[2]*b[3] - a[3]*b[2] = 0
  /\ a[3]*b[1] - a[1]*b[3] = 0
  /\ a[1]*b[2] - a[2]*b[1] = 0
  /\ a[1]*b[1] + a[2]*b[2] + a[3]*b[3] > 0

\* C1: every vector the streaming loop has published has a Euclidean norm of
\* at most MAX_SPEED, whatever the setpoint slot held when it was copied.
C1_PublishedWithinLimit ==
  published # Nothing => NormSq(published) <= MAX_SPEED * MAX_SPEED

\* C1 witness: a streaming loop has published, and a loop has met a setpoint
\* above the limit (it ended on it, see ThrL230).
C1_OverLimitMet ==
  /\ published # Nothing
  /\ \E t \in Threads : thr[t] = "crashed"

\* C2: a tick of the streaming loop that copies a setpoint above the limit
\* publishes that setpoint scaled to norm exactly MAX_SPEED, in the same
\* direction, and the loop goes on to its next tick.
C2_OverLimitScaledAndRunning ==
  [][\A t \in Threads :
       (thr[t] = "l230" /\ thr'[t] # "l230" /\ OverLimit(vel_setpoint_bu_lenu__lenu))
         => (/\ thr'[t] = "l225"
             /\ NormSq(published') = MAX_SPEED * MAX_SPEED
             /\ SameDirection(published', vel_setpoint_bu_lenu__lenu))]_vars

C4_AbortWithinOneTick == hist.late.w <= 1

\* C5: once the executor has left a maneuver at a sample boundary because of
\* shutdown or a mode other than OFFBOARD, it pulls and writes no sample of
\* any later maneuver of the list.
C5_AbortAbandonsList ==
  hist.aborted > 0 => cb.pc \notin {"pull", "l198", "l200", "l201", "l202", "l204"}

\* C6: when state_cb has handled a MANUAL update (and no later update yet),
\* no streaming thread is running.
C6_ManualStopsStreaming ==
  (cb.pc = "idle" /\ current_state = "MANUAL") => \A t \in Threads : ~Alive(t)

Written(k) == Cardinality({i \in 1..Len(hist.written) : hist.written[i] = k})

\* C8: an OFFBOARD update whose previous mode was not OFFBOARD starts the
\* execution of the list, any other update starts none; the maneuvers write
\* their samples in list order, and a list run without abort has written
\* each maneuver's samples once.
C8_FreshOffboardRunsListInOrder ==
  /\ [](/\ (cb.pc \in ExecPcs \cup {"raised"}
              => (current_state = "OFFBOARD" /\ prev_state # "OFFBOARD"))
         /\ \A i, j \in 1..Len(hist.written) :
              (i < j => hist.written[i] <= hist.written[j])
         /\ ((cb.pc = "for" /\ cb.k = Len(maneuvers) /\ hist.aborted = 0)
              => \A k \in 1..Len(maneuvers) : Written(k) = maneuvers[k].dur))
  /\ [][(cb.pc = "l289" /\ cb'.pc # "l289")
          => (IF current_state = "OFFBOARD" /\ prev_state # "OFFBOARD"
              THEN cb'.pc = "for" /\ cb'.k = 0
              ELSE cb'.pc = "idle")]_vars

\* C8 witness: a list of two maneuvers has been run to its end without abort.
C8_ListRunInOrder ==
  /\ cb.pc = "for" /\ cb.k = Len(maneuvers) /\ Len(maneuvers) = 2
  /\ hist.aborted = 0
  /\ hist.written = <<1, 2, 2>>

\* every maneuver of the list is a constant one (s_man)
AllConstant == \A k \in 1..Len(maneuvers) : maneuvers[k].kind = "s_man"

\* C9: the slot is (0,0,0) whenever the executor stands between two
\* maneuvers, and the execution of a list of constant maneuvers only ends
\* with the list exhausted and the slot (0,0,0).
C9_ResetAndListExhausted ==
  /\ (cb.pc = "for" => vel_setpoint_bu_lenu__lenu = Zero)
  /\ ~(AllConstant /\ cb.pc = "raised")

\* C10: iterating a parametric maneuver raises nothing and ends, when it is
\* not cut short, after `domain` samples.
C10_ParManIterates ==
  (cb.k > 0 /\ maneuvers[cb.k].kind = "par_man")
    => /\ cb.pc # "raised"
       /\ ((cb.pc = "l207" /\ hist.aborted = 0) => cb.n = maneuvers[cb.k].domain)

\* C11: a sample whose transform fails (orientation unknown for a
\* body-relative frame, or a frame without static transform) is dropped: the
\* slot keeps its value, no exception leaves the executor, and the executor
\* goes on.
C11_FailedSampleDropped ==
  [][(/\ cb.pc = "l198" /\ cb'.pc # "l198"
      /\ get_lenu_velocity(q_bu_lenu, cb.vel, maneuvers[cb.k].ref).exc # "none")
       => (/\ cb'.pc \in ExecPcs
           /\ vel_setpoint_bu_lenu__lenu' = vel_setpoint_bu_lenu__lenu)]_vars

\* C12: at every moment prev_state.mode is the mode of the update handled
\* before the latest one (the empty mode if there is none) and
\* current_state.mode the mode of the latest update handled, also while that
\* update's maneuvers run or the streamer is started or stopped.
C12_ModePairTracksUpdates ==
  /\ prev_state = hist.modes[1]
  /\ current_state = hist.modes[2]

\* C12 witness: the update before the latest was POSCTL, the latest is
\* OFFBOARD and its maneuvers are being executed.
C12_OffboardAfterPosctl ==
  /\ hist.modes = <<"POSCTL", "OFFBOARD">>
  /\ cb.pc = "l202"

\* no streamer was ever started, or stop has returned and no start followed
StopIsRedundant == offboard_point_streaming_thread = 0 \/ hist.stopReturned

\* C13: a stop_streaming_offboard_points() that is redundant (the streamer
\* never started, or stopped and not started since) finds the flag false and
\* leaves it so, changes neither the slot nor the mode pair, raises nothing
\* and does not wait: it has no thread to join, or one that has ended.
C13_RedundantStopIsNoOp ==
  [][/\ ((StopIsRedundant /\ main.pc = "spin" /\ main'.pc = "l252")
            => UNCHANGED << offboard_point_streaming, vel_setpoint_bu_lenu__lenu,
                            current_state, prev_state >>)
     /\ ((StopIsRedundant /\ cb.pc = "l250" /\ cb'.pc = "l252")
            => UNCHANGED << offboard_point_streaming, vel_setpoint_bu_lenu__lenu,
                            current_state, prev_state >>)
     /\ ((StopIsRedundant /\ main.pc = "l252" /\ main'.pc = "join")
            => thr[main'.joinT] \in Dead)
     /\ ((StopIsRedundant /\ cb.pc = "l252" /\ cb'.pc = "join")
            => thr[cb'.joinT] \in Dead)]_vars

\* C14: for distinct frames fin, fout, coord_transform returns a vector
\* exactly when the class has a rotation R_<fin>2<fout>; otherwise it raises
\* an error whose message names fin and fout; the call changes nothing of
\* the controller.
C14_TransformOrNamedError ==
  /\ []((call.pc \in {"returned", "back"} /\ call.fin # call.fout)
          => IF <<call.fin, call.fout>> \in DOMAIN StaticAttrs
             THEN call.res.exc = "none"
             ELSE /\ call.res.exc = "AttributeError"
                  /\ \E i, j \in DOMAIN call.res.msg :
                       /\ i < j
                       /\ call.res.msg[i] = call.fin
                       /\ call.res.msg[j] = call.fout)
  /\ [][call' # call => UNCHANGED controller]_vars

\* C14 witness: a call for a pair without rotation has raised.
C14_NoRotationRaised ==
  /\ call.pc = "returned"
  /\ call.fin = "lenu" /\ call.fout = "bu"
  /\ call.res.exc = "AttributeError"

\* C15: where fin -> fout has a rotation, fout -> fin has one too, it is the
\* transpose of the first, and transforming there and back gives the vector
\* started from; transforming from a frame to itself gives the vector.
C15_RoundTrip ==
  /\ (call.pc = "back"
        => /\ call.back.exc = "none"
           /\ call.back.v = call.v
           /\ (call.fin # call.fout
                 => /\ <<call.fout, call.fin>> \in DOMAIN StaticAttrs
                    /\ StaticAttrs[<<call.fout, call.fin>>]
                         = Transpose(StaticAttrs[<<call.fin, call.fout>>])))
  /\ ((call.pc \in {"returned", "back"} /\ call.fin = call.fout)
        => call.res = Ret(call.v))

\* C15 witness: a vector has been taken from fc to bu, where it has other
\* components, and back.
C15_ThereAndBack ==
  /\ call.pc = "back"
  /\ call.fin = "fc" /\ call.fout = "bu"
  /\ call.v = <<1, 0, -1>>
  /\ call.res.v # call.v

\* C16: while a maneuver sample is being written, what a streaming loop
\* copies from the slot is (0,0,0) or the whole transformed sample, never a
\* part of it.
C16_NoTornSnapshot ==
  [][\A t \in Threads :
       (thr[t] = "l230" /\ thr'[t] # "l230" /\ cb.pc \in {"l201", "l202"})
         => vel_setpoint_bu_lenu__lenu \in {Zero, cb.vel}]_vars

\* C17: no step of run_streaming changes the setpoint slot or the
\* streaming flag.
C17_StreamingLoopOnlyReads ==
  [][\A t \in Threads :
       (thr[t] \in {"l224", "l225", "l230"} /\ thr'[t] # thr[t])
         => UNCHANGED << vel_setpoint_bu_lenu__lenu, offboard_point_streaming >>]_vars

\* the modes state_cb reacts to
KnownModes == {"MANUAL", "POSCTL", "OFFBOARD"}

\* C18: handling an update whose mode is none of MANUAL, POSCTL, OFFBOARD
\* changes the mode pair only: state_cb leaves the slot, the flag and the
\* streaming threads as they are and enters neither stop nor the executor.
C18_UnknownModeChangesPairOnly ==
  [][/\ ((cb.pc = "idle" /\ cb'.pc # "idle" /\ current_state' \notin KnownModes)
           => UNCHANGED << vel_setpoint_bu_lenu__lenu, offboard_point_streaming,
                           offboard_point_streaming_thread, thr >>)
     /\ ((cb.pc # "idle" /\ cb' # cb /\ current_state \notin KnownModes)
           => /\ UNCHANGED << vel_setpoint_bu_lenu__lenu, offboard_point_streaming,
                              offboard_point_streaming_thread, thr,
                              current_state, prev_state >>
              /\ cb'.pc \in {"l281", "l285", "l289", "idle"})]_vars

\* C18 witness: an update with an unknown mode, coming after POSCTL with the
\* streamer running, has been handled up to its last test.
C18_UnknownAfterPosctl ==
  /\ cb.pc = "l289"
  /\ current_state = "" /\ prev_state = "POSCTL"
  /\ \E t \in Threads : thr[t] = "l230"

\* C19: at most one streaming thread is alive.
C19_AtMostOneStreamingThread ==
  Cardinality({t \in Threads : Alive(t)}) <= 1

\* C20: while the executor writes a maneuver sample to the slot, a
\* streaming thread is alive.
C20_StreamerRunsDuringManeuver ==
  cb.pc \in {"l200", "l201", "l202"} => \E t \in Threads : Alive(t)

====
